---- MODULE Spec2Model ----
(***************************************************************************)
(* Pairwise sequence alignment of src/src/aligner.py: Needleman-Wunsch,    *)
(* Smith-Waterman and Gotoh (global / local), as one call of align().      *)
(*                                                                         *)
(* The arguments A and B are always strings here (the isinstance test of   *)
(* lines 229-230 passes).                                                  *)
(*                                                                         *)
(* A sequence is a TLA+ sequence of one-character strings.  Python indexes *)
(* from 0: col_idx[c] of the source is col_idx[c + 1] here.  The score     *)
(* matrix score[r, c, 0..3] of the source is a function on (row, column)   *)
(* pairs whose cells are records: val (channel 0), left (1, horizontal     *)
(* arrow), diag (2, diagonal arrow), top (3, vertical arrow).              *)
(***************************************************************************)
EXTENDS Integers, Sequences, FiniteSets, TLC

VARIABLES
    args,         \* the call's arguments [A, B, method, penalties], as passed
    penalties,    \* the penalty dictionary align() works on (it mutates it)
    pc,           \* position in the call: call, init, fill, start, trace, done, raised
    score,        \* the 3D score matrix (empty until _init_align builds it)
    I,            \* align_g: best score ending in a horizontal gap
    D,            \* align_g: best score ending in a vertical gap
    row,          \* loop / traceback row
    col,          \* loop / traceback column
    final_score,  \* score captured before tracing
    result_A,     \* aligned first sequence, built by prepending
    result_B,     \* aligned second sequence, built by prepending
    exc           \* the exception the call raised, "none" while there is none

vars == <<args, penalties, pc, score, I, D, row, col, final_score, result_A, result_B, exc>>

(***************************************************************************)
(* Bounds of the model.                                                    *)
(***************************************************************************)
MaxLen == 2
MutLen == 7

Alphabet == {"a", "b"}

RECURSIVE SeqsOfLen(_)
SeqsOfLen(n) ==
    IF n = 0 THEN {<<>>}
    ELSE {<<x>> \o s : x \in Alphabet, s \in SeqsOfLen(n - 1)}

SeqsUpTo(n) == UNION {SeqsOfLen(k) : k \in 0..n}

(***************************************************************************)
(* Penalty dictionaries.  NoPenalties stands for penalties=None.           *)
(***************************************************************************)
NoPenalties == [none |-> 0]

Keys == {"match", "mismatch", "indel", "gap_opening"}

MatchValues == {1, 2}
MismatchValues == {-3, -1}
IndelValues == {-2, -1, 1}
OpeningValues == {-3, -2, -1, 1}

FullPenalties ==
    [match : MatchValues, mismatch : MismatchValues,
     indel : IndelValues, gap_opening : OpeningValues]

Restrict(p, K) == [k \in K |-> p[k]]

PenaltyArgs ==
    {NoPenalties} \cup {Restrict(p, K) : p \in FullPenalties, K \in SUBSET Keys}

Methods == {"NW", "SW", "GG", "GL", "AE", "None", "XY"}

(***************************************************************************)
(* align(), lines 226-263: validation and dispatch.                        *)
(***************************************************************************)
DefaultPenalties == [match |-> 1, mismatch |-> -1, indel |-> -1]

\* lines 232-233
PenaltiesOrDefault(p) == IF p = NoPenalties THEN DefaultPenalties ELSE p

\* Mutant of Malformatted: gap_opening is required like the other three keys.
Malformatted_RequiresGapOpening(p) ==
    \/ "match" \notin DOMAIN p
    \/ "mismatch" \notin DOMAIN p
    \/ "indel" \notin DOMAIN p
    \/ "gap_opening" \notin DOMAIN p

\* lines 234-239: the three lookups that raise KeyError
Malformatted(p) ==
    \/ "match" \notin DOMAIN p
    \/ "mismatch" \notin DOMAIN p
    \/ "indel" \notin DOMAIN p

\* lines 241-244
WithGapOpening(p) ==
    IF "gap_opening" \in DOMAIN p THEN p
    ELSE [k \in DOMAIN p \cup {"gap_opening"} |->
            IF k = "gap_opening" THEN p["indel"] ELSE p[k]]

\* line 246
KnownMethods == {"NW", "SW", "GG", "GL", "AE", "None"}

\* line 248
NormMethod(m) == IF m = "None" THEN "NW" ELSE m

\* lines 250-260: the mode each method is dispatched with
ModeOf(m) == IF NormMethod(m) \in {"NW", "GG"} THEN "global" ELSE "local"

\* lines 250-260: whether the method is dispatched to align_g
IsGotoh(m) == NormMethod(m) \in {"GG", "GL"}

(***************************************************************************)
(* _init_align, lines 76-90, and the boundary initialisation, lines 96-101 *)
(* and 161-166.                                                            *)
(***************************************************************************)
Header(S) == <<" ">> \o S

ZeroCell == [val |-> 0, left |-> 0, diag |-> 0, top |-> 0]

\* line 88: np.zeros((len(row_idx), len(col_idx), 4))
Zeros(R, C) == [rc \in (0..(R - 1)) \X (0..(C - 1)) |-> ZeroCell]

\* lines 98 and 100: range(0, -len(idx), -1)
BoundaryValue(k, pen) == -k

\* lines 96-101: the four slice assignments, in their order
InitBoundary(sc, pen) ==
    [rc \in DOMAIN sc |->
        LET r == rc[1]
            c == rc[2]
            v0 == IF r = 0 THEN BoundaryValue(c, pen) ELSE sc[rc].val
            l0 == IF r = 0 THEN 1 ELSE sc[rc].left
            v1 == IF c = 0 THEN BoundaryValue(r, pen) ELSE v0
            t1 == IF c = 0 THEN 1 ELSE sc[rc].top
        IN  [val |-> v1, left |-> l0, diag |-> sc[rc].diag, top |-> t1]]

InitScore(A, B, pen, mode) ==
    LET z == Zeros(Len(Header(B)), Len(Header(A)))
    IN  IF mode = "global" THEN InitBoundary(z, pen) ELSE z

\* lines 168-169: np.copy(score[:, :, 0])
CopyValues(sc) == [rc \in DOMAIN sc |-> sc[rc].val]

Max2(x, y) == IF x >= y THEN x ELSE y

Max3(x, y, z) == Max2(x, Max2(y, z))

Max4(x, y, z, w) == Max2(Max2(x, y), Max2(z, w))

(***************************************************************************)
(* The fill phase.  m is the matrix state [score, I, D] of one call; the   *)
(* simple methods leave I and D alone.                                     *)
(***************************************************************************)
\* lines 105 and 183
alignment_penalty(col_idx, row_idx, r, c, pen) ==
    IF col_idx[c + 1] = row_idx[r + 1] THEN pen["match"] ELSE pen["mismatch"]

\* lines 110-119 and 188-196: the cell's score and its three arrows
ScoredCell(diag, left, top, mode) ==
    LET max_score == IF mode = "global" THEN Max3(diag, left, top)
                     ELSE Max4(diag, left, top, 0)
    IN  [val |-> max_score,
         left |-> IF left = max_score THEN 1 ELSE 0,
         diag |-> IF diag = max_score THEN 1 ELSE 0,
         top |-> IF top = max_score THEN 1 ELSE 0]

\* Mutant of fill_cell: the vertical gap is charged gap_opening, not indel.
fill_cell_TopPaysOpening(m, r, c, col_idx, row_idx, pen, mode) ==
    LET diag == m.score[<<r - 1, c - 1>>].val
                    + alignment_penalty(col_idx, row_idx, r, c, pen)
        left == m.score[<<r, c - 1>>].val + pen["indel"]
        top == m.score[<<r - 1, c>>].val + pen["gap_opening"]
    IN  [m EXCEPT !.score[<<r, c>>] = ScoredCell(diag, left, top, mode)]

\* _align.fill_cell, lines 104-119
fill_cell(m, r, c, col_idx, row_idx, pen, mode) ==
    LET diag == m.score[<<r - 1, c - 1>>].val
                    + alignment_penalty(col_idx, row_idx, r, c, pen)
        left == m.score[<<r, c - 1>>].val + pen["indel"]
        top == m.score[<<r - 1, c>>].val + pen["indel"]
    IN  [m EXCEPT !.score[<<r, c>>] = ScoredCell(diag, left, top, mode)]

\* Mutant of GotohI: opening a gap is charged gap_opening and indel.
GotohI_OpeningPlusIndel(m, r, c, pen) ==
    IF r = 1 THEN m.score[<<r, c - 1>>].val + pen["gap_opening"] + pen["indel"]
    ELSE Max2(m.score[<<r, c - 1>>].val + pen["gap_opening"] + pen["indel"],
              m.I[<<r, c - 1>>] + pen["indel"])

\* align_g.fill_cell, lines 173-176: the horizontal gap score I[r, c]
GotohI(m, r, c, pen) ==
    IF r = 1 THEN m.score[<<r, c - 1>>].val + pen["gap_opening"]
    ELSE Max2(m.score[<<r, c - 1>>].val + pen["gap_opening"],
              m.I[<<r, c - 1>>] + pen["indel"])

\* align_g.fill_cell, lines 178-181: the vertical gap score D[r, c]
GotohD(m, r, c, pen) ==
    IF c = 1 THEN m.score[<<r - 1, c>>].val + pen["gap_opening"]
    ELSE Max2(m.score[<<r - 1, c>>].val + pen["gap_opening"],
              m.D[<<r - 1, c>>] + pen["indel"])

\* align_g.fill_cell, lines 172-196
fill_cell_g(m, r, c, col_idx, row_idx, pen, mode) ==
    LET i == GotohI(m, r, c, pen)
        d == GotohD(m, r, c, pen)
        diag == m.score[<<r - 1, c - 1>>].val
                    + alignment_penalty(col_idx, row_idx, r, c, pen)
        left == i
        top == d
    IN  [score |-> [m.score EXCEPT ![<<r, c>>] = ScoredCell(diag, left, top, mode)],
         I |-> [m.I EXCEPT ![<<r, c>>] = i],
         D |-> [m.D EXCEPT ![<<r, c>>] = d]]

\* lines 123 and 200: the fill_cell the running function calls
FillOne(m, r, c, col_idx, row_idx, pen, mode, gotoh) ==
    IF gotoh THEN fill_cell_g(m, r, c, col_idx, row_idx, pen, mode)
    ELSE fill_cell(m, r, c, col_idx, row_idx, pen, mode)

\* lines 94-101 and 159-169: the matrix state before the fill loops
InitMatrix(A, B, pen, mode, gotoh) ==
    LET sc == InitScore(A, B, pen, mode)
    IN  [score |-> sc,
         I |-> IF gotoh THEN CopyValues(sc) ELSE <<>>,
         D |-> IF gotoh THEN CopyValues(sc) ELSE <<>>]

\* lines 121-123 and 198-200: the two nested loops, from cell (r, c) on
RECURSIVE FillFrom(_, _, _, _, _, _, _, _)
FillFrom(m, r, c, col_idx, row_idx, pen, mode, gotoh) ==
    IF r >= Len(row_idx) \/ Len(col_idx) <= 1 THEN m
    ELSE LET m1 == FillOne(m, r, c, col_idx, row_idx, pen, mode, gotoh)
         IN  IF c + 1 < Len(col_idx)
             THEN FillFrom(m1, r, c + 1, col_idx, row_idx, pen, mode, gotoh)
             ELSE FillFrom(m1, r + 1, 1, col_idx, row_idx, pen, mode, gotoh)

(***************************************************************************)
(* The traceback.                                                          *)
(***************************************************************************)
\* Python / numpy indexing of a length-n axis: a negative index counts from
\* the end, anything outside -n .. n-1 raises IndexError (here -1).
PyIndex(n, i) ==
    IF i >= 0 /\ i < n THEN i
    ELSE IF i < 0 /\ i >= -n THEN n + i
    ELSE -1

\* lines 129 and 206: score[:, :, 0].argmax(), unravelled: the first maximum
\* in row-major order
ArgMax(sc, R, C) ==
    CHOOSE rc \in DOMAIN sc :
        \A other \in DOMAIN sc :
            \/ sc[other].val < sc[rc].val
            \/ /\ sc[other].val = sc[rc].val
               /\ rc[1] * C + rc[2] <= other[1] * C + other[2]

\* lines 125-129 and 202-206
StartCell(sc, R, C, mode) ==
    IF mode = "global" THEN <<R - 1, C - 1>> ELSE ArgMax(sc, R, C)

\* _trace_cell, lines 54-73.  exc is IndexError when an index is out of
\* range, and TypeError when no arrow is set: the function then returns
\* None, which the caller's "row, col = " cannot unpack.
_trace_cell(r, c, sc, col_idx, row_idx, rA, rB) ==
    LET cc == PyIndex(Len(col_idx), c)
        rr == PyIndex(Len(row_idx), r)
    IN  IF cc = -1 \/ rr = -1
        THEN [exc |-> "IndexError", row |-> r, col |-> c, result_A |-> rA, result_B |-> rB]
        ELSE LET A_letter == col_idx[cc + 1]
                 B_letter == row_idx[rr + 1]
                 cell == sc[<<rr, cc>>]
             IN  IF cell.left # 0
                 THEN [exc |-> "none", row |-> r, col |-> c - 1,
                       result_A |-> <<A_letter>> \o rA, result_B |-> <<"-">> \o rB]
                 ELSE IF cell.diag # 0
                 THEN [exc |-> "none", row |-> r - 1, col |-> c - 1,
                       result_A |-> <<A_letter>> \o rA, result_B |-> <<B_letter>> \o rB]
                 ELSE IF cell.top # 0
                 THEN [exc |-> "none", row |-> r - 1, col |-> c,
                       result_A |-> <<"-">> \o rA, result_B |-> <<B_letter>> \o rB]
                 ELSE [exc |-> "TypeError", row |-> r, col |-> c,
                       result_A |-> rA, result_B |-> rB]

\* lines 134-139 and 211-216: the loop's exit test after a step to (r, c):
\* "break", "continue", or "IndexError" when score[row, col, 0] is out of range
LoopTest(r, c, sc, R, C, mode) ==
    IF mode = "global"
    THEN (IF r = 0 /\ c = 0 THEN "break" ELSE "continue")
    ELSE LET rr == PyIndex(R, r)
             cc == PyIndex(C, c)
         IN  IF rr = -1 \/ cc = -1 THEN "IndexError"
             ELSE IF sc[<<rr, cc>>].val = 0 THEN "break" ELSE "continue"

\* lines 132-139 and 209-216: one iteration of "while True"
TraceIteration(t, sc, col_idx, row_idx, mode) ==
    LET s == _trace_cell(t.row, t.col, sc, col_idx, row_idx, t.result_A, t.result_B)
    IN  IF s.exc # "none" THEN s @@ [pc |-> "raised"]
        ELSE LET test == LoopTest(s.row, s.col, sc, Len(row_idx), Len(col_idx), mode)
             IN  IF test = "IndexError"
                 THEN [s EXCEPT !.exc = "IndexError"] @@ [pc |-> "raised"]
                 ELSE s @@ [pc |-> IF test = "break" THEN "done" ELSE "trace"]

\* lines 132-141 and 209-218: the whole loop
RECURSIVE TraceFrom(_, _, _, _, _)
TraceFrom(t, sc, col_idx, row_idx, mode) ==
    LET n == TraceIteration(t, sc, col_idx, row_idx, mode)
    IN  IF n.pc = "trace" THEN TraceFrom(n, sc, col_idx, row_idx, mode) ELSE n

(***************************************************************************)
(* The state machine of one call of align(A, B, method, penalties).        *)
(***************************************************************************)
col_idx == Header(args.A)
row_idx == Header(args.B)
mode == ModeOf(args.method)

Blank ==
    /\ pc = "call"
    /\ score = <<>>
    /\ I = <<>>
    /\ D = <<>>
    /\ row = 0
    /\ col = 0
    /\ final_score = 0
    /\ result_A = <<>>
    /\ result_B = <<>>
    /\ exc = "none"

Init ==
    /\ args \in [A : SeqsUpTo(MaxLen), B : SeqsUpTo(MaxLen),
                 method : Methods, penalties : PenaltyArgs]
    /\ penalties = args.penalties
    /\ Blank

\* lines 232-239: a dictionary without match, mismatch or indel
align_ParameterError ==
    /\ pc = "call"
    /\ Malformatted(PenaltiesOrDefault(penalties))
    /\ pc' = "raised"
    /\ exc' = "ParameterError"
    /\ penalties' = PenaltiesOrDefault(penalties)
    /\ UNCHANGED <<args, score, I, D, row, col, final_score, result_A, result_B>>

\* Mutant of align_UnknownAlgorithmError: the method is checked only after
\* the matrix has been built.
align_UnknownAlgorithmError_AfterInit ==
    /\ pc = "call"
    /\ ~Malformatted(PenaltiesOrDefault(penalties))
    /\ args.method \notin KnownMethods
    /\ pc' = "raised"
    /\ exc' = "UnknownAlgorithmError"
    /\ penalties' = WithGapOpening(PenaltiesOrDefault(penalties))
    /\ score' = Zeros(Len(row_idx), Len(col_idx))
    /\ UNCHANGED <<args, I, D, row, col, final_score, result_A, result_B>>

\* lines 232-247: a complete dictionary, then a method that is not known
align_UnknownAlgorithmError ==
    /\ pc = "call"
    /\ ~Malformatted(PenaltiesOrDefault(penalties))
    /\ args.method \notin KnownMethods
    /\ pc' = "raised"
    /\ exc' = "UnknownAlgorithmError"
    /\ penalties' = WithGapOpening(PenaltiesOrDefault(penalties))
    /\ UNCHANGED <<args, score, I, D, row, col, final_score, result_A, result_B>>

\* lines 262-263 and 221-223: align_ae raises NotImplementedError
align_ae ==
    /\ pc = "call"
    /\ ~Malformatted(PenaltiesOrDefault(penalties))
    /\ args.method \in KnownMethods
    /\ NormMethod(args.method) = "AE"
    /\ pc' = "raised"
    /\ exc' = "NotImplementedError"
    /\ penalties' = WithGapOpening(PenaltiesOrDefault(penalties))
    /\ UNCHANGED <<args, score, I, D, row, col, final_score, result_A, result_B>>

\* lines 232-260: the call reaches align_nw, align_sw or align_g
align_dispatch ==
    /\ pc = "call"
    /\ ~Malformatted(PenaltiesOrDefault(penalties))
    /\ args.method \in KnownMethods
    /\ NormMethod(args.method) \in {"NW", "SW", "GG", "GL"}
    /\ pc' = "init"
    /\ penalties' = WithGapOpening(PenaltiesOrDefault(penalties))
    /\ UNCHANGED <<args, score, I, D, row, col, final_score, result_A, result_B, exc>>

\* lines 94-101 and 159-169: the matrix is built; the loops start at (1, 1),
\* or are over at once when a sequence is empty
init_matrix ==
    /\ pc = "init"
    /\ LET m == InitMatrix(args.A, args.B, penalties, mode, IsGotoh(args.method))
       IN  /\ score' = m.score
           /\ I' = m.I
           /\ D' = m.D
    /\ IF Len(row_idx) > 1 /\ Len(col_idx) > 1
       THEN pc' = "fill" /\ row' = 1 /\ col' = 1
       ELSE pc' = "start" /\ UNCHANGED <<row, col>>
    /\ UNCHANGED <<args, penalties, final_score, result_A, result_B, exc>>

\* lines 121-123 and 198-200: one fill_cell(row, col) and the loops' advance
fill_step ==
    /\ pc = "fill"
    /\ LET m == FillOne([score |-> score, I |-> I, D |-> D], row, col,
                        col_idx, row_idx, penalties, mode, IsGotoh(args.method))
       IN  /\ score' = m.score
           /\ I' = m.I
           /\ D' = m.D
    /\ IF col + 1 < Len(col_idx)
       THEN pc' = "fill" /\ row' = row /\ col' = col + 1
       ELSE IF row + 1 < Len(row_idx)
       THEN pc' = "fill" /\ row' = row + 1 /\ col' = 1
       ELSE pc' = "start" /\ UNCHANGED <<row, col>>
    /\ UNCHANGED <<args, penalties, final_score, result_A, result_B, exc>>

\* lines 125-130 and 202-207
pick_start ==
    /\ pc = "start"
    /\ LET rc == StartCell(score, Len(row_idx), Len(col_idx), mode)
       IN  /\ row' = rc[1]
           /\ col' = rc[2]
           /\ final_score' = score[rc].val
    /\ pc' = "trace"
    /\ UNCHANGED <<args, penalties, score, I, D, result_A, result_B, exc>>

\* lines 132-141 and 209-218: one iteration of the traceback loop; the
\* iteration that breaks also returns
trace_step ==
    /\ pc = "trace"
    /\ LET n == TraceIteration(
                    [row |-> row, col |-> col, result_A |-> result_A, result_B |-> result_B],
                    score, col_idx, row_idx, mode)
       IN  /\ pc' = n.pc
           /\ exc' = n.exc
           /\ row' = n.row
           /\ col' = n.col
           /\ result_A' = n.result_A
           /\ result_B' = n.result_B
    /\ UNCHANGED <<args, penalties, score, I, D, final_score>>

Next ==
    \/ align_ParameterError
    \/ align_UnknownAlgorithmError
    \/ align_ae
    \/ align_dispatch
    \/ init_matrix
    \/ fill_step
    \/ pick_start
    \/ trace_step

Spec == Init /\ [][Next]_vars

(***************************************************************************)
(* The call as a function of its arguments: what align() leaves behind     *)
(* when it returns or raises.                                              *)
(***************************************************************************)
NotStarted(a, p, e) ==
    [pc |-> "raised", exc |-> e, penalties |-> p, score |-> <<>>, I |-> <<>>,
     D |-> <<>>, row |-> 0, col |-> 0, final_score |-> 0,
     result_A |-> <<>>, result_B |-> <<>>]

\* lines 125-141 and 202-218: the start cell, the traceback from it and the
\* return, on the filled matrix m
Traced(m, ci, ri, pen, md) ==
    LET rc == StartCell(m.score, Len(ri), Len(ci), md)
        t == TraceFrom([row |-> rc[1], col |-> rc[2], result_A |-> <<>>, result_B |-> <<>>],
                       m.score, ci, ri, md)
    IN  [pc |-> t.pc, exc |-> t.exc, penalties |-> pen, score |-> m.score,
         I |-> m.I, D |-> m.D, row |-> t.row, col |-> t.col,
         final_score |-> m.score[rc].val,
         result_A |-> t.result_A, result_B |-> t.result_B]

\* _align, lines 93-141, and align_g, lines 156-218 (the filled matrix is
\* bound as a set's element so that it is computed once)
_align(A, B, pen, md, gotoh) ==
    CHOOSE n \in {Traced(m, Header(A), Header(B), pen, md) :
                    m \in {FillFrom(InitMatrix(A, B, pen, md, gotoh), 1, 1,
                                     Header(A), Header(B), pen, md, gotoh)}} : TRUE

\* align, lines 226-263
align(a) ==
    LET p0 == PenaltiesOrDefault(a.penalties)
        p1 == WithGapOpening(p0)
    IN  IF Malformatted(p0) THEN NotStarted(a, p0, "ParameterError")
        ELSE IF a.method \notin KnownMethods
        THEN NotStarted(a, p1, "UnknownAlgorithmError")
        ELSE IF NormMethod(a.method) = "AE"
        THEN NotStarted(a, p1, "NotImplementedError")
        ELSE _align(a.A, a.B, p1, ModeOf(a.method), IsGotoh(a.method))

\* the whole call in one step
align_call ==
    /\ pc = "call"
    /\ \E n \in {align(args)} :
           /\ pc' = n.pc
           /\ exc' = n.exc
           /\ penalties' = n.penalties
           /\ score' = n.score
           /\ I' = n.I
           /\ D' = n.D
           /\ row' = n.row
           /\ col' = n.col
           /\ final_score' = n.final_score
           /\ result_A' = n.result_A
           /\ result_B' = n.result_B
    /\ UNCHANGED args

NextCall == align_call

\* the step-by-step call ends exactly as the whole call does
StepsAgreeWithCall ==
    pc \in {"done", "raised"} =>
        \A n \in {align(args)} :
            /\ pc = n.pc
            /\ exc = n.exc
            /\ penalties = n.penalties
            /\ score = n.score
            /\ I = n.I
            /\ D = n.D
            /\ row = n.row
            /\ col = n.col
            /\ final_score = n.final_score
            /\ result_A = n.result_A
            /\ result_B = n.result_B

(***************************************************************************)
(* Equal-length pairs under the penalties of the mutation test             *)
(* (tests/test_aligner.py, line 84), aligned by the whole call.            *)
(***************************************************************************)
MutationPenalties == [match |-> 1, mismatch |-> -1, indel |-> -10]

InitMutation ==
    /\ \E n \in 0..MutLen :
          args \in [A : SeqsOfLen(n), B : SeqsOfLen(n),
                    method : {"NW", "None"}, penalties : {MutationPenalties}]
    /\ penalties = args.penalties
    /\ Blank

SpecMutation == InitMutation /\ [][NextCall]_vars

(***************************************************************************)
(* What a finished call hands to its caller: the returned triple, or the   *)
(* exception.                                                              *)
(***************************************************************************)
Finished == pc \in {"done", "raised"}

Returned == pc = "done"

Filled == pc \in {"start", "trace", "done"} \/ (pc = "raised" /\ DOMAIN score # {})

ResultOf(n) ==
    IF n.pc = "done" THEN <<"returned", n.final_score, n.result_A, n.result_B>>
    ELSE <<"raised", n.exc>>

Result ==
    ResultOf([pc |-> pc, exc |-> exc, final_score |-> final_score,
              result_A |-> result_A, result_B |-> result_B])

Gap == "-"

\* the best score over all global alignments of X with Y, by enumeration of
\* the first column: a symbol pair, a symbol of X over a gap, or a gap over
\* a symbol of Y
RECURSIVE BestGlobal(_, _, _)
BestGlobal(X, Y, pen) ==
    IF X = <<>> /\ Y = <<>> THEN 0
    ELSE IF X = <<>> THEN pen["indel"] + BestGlobal(X, Tail(Y), pen)
    ELSE IF Y = <<>> THEN pen["indel"] + BestGlobal(Tail(X), Y, pen)
    ELSE Max3((IF Head(X) = Head(Y) THEN pen["match"] ELSE pen["mismatch"])
                  + BestGlobal(Tail(X), Tail(Y), pen),
              pen["indel"] + BestGlobal(Tail(X), Y, pen),
              pen["indel"] + BestGlobal(X, Tail(Y), pen))

(***************************************************************************)
(* C1.  Needleman-Wunsch optimality: for every pair of sequences and every *)
(* complete penalty model, the score align returns for NW (or None) is the *)
(* maximum over all global alignments of the two sequences, an alignment   *)
(* scoring match per column of equal symbols, mismatch per column of       *)
(* different symbols and indel per gap column, leading gaps included.      *)
(***************************************************************************)
C1_NWOptimal ==
    (Returned /\ NormMethod(args.method) = "NW")
        => final_score = BestGlobal(args.A, args.B, penalties)

\* the affine score of two aligned strings, column by column; prev is the
\* kind of the column before
ColumnKind(x, y) == IF x = Gap THEN "gapA" ELSE IF y = Gap THEN "gapB" ELSE "pair"

RECURSIVE Rescore(_, _, _, _)
Rescore(X, Y, prev, pen) ==
    IF X = <<>> \/ Y = <<>> THEN 0
    ELSE LET k == ColumnKind(Head(X), Head(Y))
             here == IF k = "pair"
                     THEN (IF Head(X) = Head(Y) THEN pen["match"] ELSE pen["mismatch"])
                     ELSE IF k = prev THEN pen["indel"] ELSE pen["gap_opening"]
         IN  here + Rescore(Tail(X), Tail(Y), k, pen)

(***************************************************************************)
(* C2.  Score/alignment consistency under the affine model: for GG and GL, *)
(* for non-empty sequences and every penalty model, the returned alignedA  *)
(* and alignedB have equal length and, rescored column by column           *)
(* (match/mismatch for symbol columns; gap_opening for the first position  *)
(* of each maximal run of gap columns in one string, indel for each later  *)
(* position), total the returned score.                                    *)
(***************************************************************************)
C2_AffineScoreIsAlignmentScore ==
    (Returned /\ IsGotoh(args.method) /\ args.A # <<>> /\ args.B # <<>>)
        => /\ Len(result_A) = Len(result_B)
           /\ Rescore(result_A, result_B, "none", penalties) = final_score

\* the simple method of the same mode
SimpleOf(m) == IF m = "GG" THEN "NW" ELSE "SW"

(***************************************************************************)
(* C3.  Affine vs simple convergence: when gap_opening equals indel (also  *)
(* when gap_opening is absent and align defaults it to indel), align with  *)
(* GG ends as align with NW does on the same inputs, and align with GL as  *)
(* align with SW does: the same (score, alignedA, alignedB), or the same   *)
(* exception.                                                              *)
(***************************************************************************)
C3_AffineEqualsSimple ==
    (/\ Finished
     /\ args.method \in {"GG", "GL"}
     /\ ~Malformatted(PenaltiesOrDefault(args.penalties))
     /\ penalties["gap_opening"] = penalties["indel"])
        => Result = ResultOf(align([args EXCEPT !.method = SimpleOf(args.method)]))

\* a GG call whose dictionary had no gap_opening returned an alignment with a gap
C3_Witness ==
    /\ Returned
    /\ args.method = "GG"
    /\ args.penalties # NoPenalties
    /\ "gap_opening" \notin DOMAIN args.penalties
    /\ \E i \in 1..Len(result_B) : result_B[i] = Gap
    /\ Len(args.B) > 0

(***************************************************************************)
(* C4.  Symmetry of the score under swapping the two sequences, for the    *)
(* simple global (NW) and simple local (SW) methods: align(A, B) and       *)
(* align(B, A) end the same way, and when they return their scores are     *)
(* equal.                                                                  *)
(***************************************************************************)
C4_ScoreSymmetric ==
    (/\ Finished
     /\ NormMethod(args.method) \in {"NW", "SW"}
     /\ ~Malformatted(PenaltiesOrDefault(args.penalties)))
        => \A n \in {align([args EXCEPT !.A = args.B, !.B = args.A])} :
               /\ pc = n.pc
               /\ exc = n.exc
               /\ Returned => final_score = n.final_score

\* a returned SW alignment of two sequences of different lengths
C4_Witness ==
    /\ Returned
    /\ args.method = "SW"
    /\ Len(args.A) # Len(args.B)
    /\ Len(args.A) > 0
    /\ Len(args.B) > 0
    /\ final_score > 0

\* the default penalties, or a positive match with negative mismatch, indel
\* and (when present) gap_opening
IdentityPenalties(p) ==
    \/ p = NoPenalties
    \/ /\ ~Malformatted(p)
       /\ p["match"] > 0
       /\ p["mismatch"] < 0
       /\ p["indel"] < 0
       /\ ("gap_opening" \in DOMAIN p => p["gap_opening"] < 0)

(***************************************************************************)
(* C5.  Identity: for any sequence S, the empty one included, and any      *)
(* selectable method, align(S, S) under the default penalties returns      *)
(* len(S) * match; and so it does under a custom positive match score with *)
(* negative mismatch and indel.  Stated here for the implemented methods   *)
(* and for dictionaries whose gap_opening, when present, is negative.      *)
(***************************************************************************)
C5_SelfAlignmentScore ==
    (/\ Finished
     /\ args.A = args.B
     /\ NormMethod(args.method) \in {"NW", "SW", "GG", "GL"}
     /\ IdentityPenalties(args.penalties))
        => /\ Returned
           /\ final_score = Len(args.A) * penalties["match"]

\* the same statement for non-empty sequences
C5_NonEmptySelfAlignmentScore ==
    (/\ Finished
     /\ args.A = args.B
     /\ args.A # <<>>
     /\ NormMethod(args.method) \in {"NW", "SW", "GG", "GL"}
     /\ IdentityPenalties(args.penalties))
        => /\ Returned
           /\ final_score = Len(args.A) * penalties["match"]

\* the number of positions in which two sequences of equal length differ
Substitutions(X, Y) == Cardinality({i \in 1..Len(X) : X[i] # Y[i]})

(***************************************************************************)
(* C6.  Mutation-penalty linearity: for equal-length sequences that differ *)
(* in exactly k positions, NW under {match: 1, mismatch: -1, indel: -10}   *)
(* returns length - 2 * k.  Checked under SpecMutation.                    *)
(***************************************************************************)
C6_MutationLinearity ==
    (Returned /\ Len(args.A) = Len(args.B) /\ penalties["indel"] = -10)
        => final_score = Len(args.A) - 2 * Substitutions(args.A, args.B)

\* no matrix, no score and no aligned string exists yet
NothingComputed ==
    /\ DOMAIN score = {}
    /\ DOMAIN I = {}
    /\ DOMAIN D = {}
    /\ final_score = 0
    /\ result_A = <<>>
    /\ result_B = <<>>

(***************************************************************************)
(* C7.  Unknown method: with a complete penalty model (or none given), a   *)
(* call whose method is outside {NW, SW, GG, GL, AE, None} raises          *)
(* UnknownAlgorithmError, and no matrix is built and no alignment computed *)
(* at any point of the call.                                               *)
(***************************************************************************)
C7_UnknownMethodRaises ==
    (/\ args.method \notin {"NW", "SW", "GG", "GL", "AE", "None"}
     /\ ~Malformatted(PenaltiesOrDefault(args.penalties)))
        => /\ NothingComputed
           /\ pc \in {"call", "raised"}
           /\ pc = "raised" => exc = "UnknownAlgorithmError"

\* the call with method XY and two non-empty sequences has raised
C7_Witness ==
    /\ pc = "raised"
    /\ exc = "UnknownAlgorithmError"
    /\ args.method = "XY"
    /\ args.A # <<>>
    /\ args.B # <<>>

(***************************************************************************)
(* C8.  Malformed penalties: whatever the sequences and the method, a      *)
(* penalty mapping that lacks match, mismatch or indel makes align raise   *)
(* ParameterError with nothing computed; a mapping that has the three and  *)
(* lacks gap_opening is accepted, and gap_opening takes indel's value.     *)
(***************************************************************************)
C8_MalformedPenalties ==
    /\ (args.penalties # NoPenalties /\ Malformatted(args.penalties))
          => /\ NothingComputed
             /\ pc \in {"call", "raised"}
             /\ pc = "raised" => exc = "ParameterError"
    /\ (/\ args.penalties # NoPenalties
        /\ {"match", "mismatch", "indel"} \subseteq DOMAIN args.penalties
        /\ "gap_opening" \notin DOMAIN args.penalties
        /\ pc # "call")
          => /\ exc # "ParameterError"
             /\ DOMAIN penalties = Keys
             /\ penalties["gap_opening"] = args.penalties["indel"]
             /\ \A k \in DOMAIN args.penalties : penalties[k] = args.penalties[k]

\* a call with an unknown method and a mapping without indel raised ParameterError
C8_Witness ==
    /\ pc = "raised"
    /\ exc = "ParameterError"
    /\ args.method = "XY"
    /\ DOMAIN args.penalties = {"match", "mismatch", "gap_opening"}

(***************************************************************************)
(* C9.  Global boundary initialisation: after the fill phase of NW and GG  *)
(* every row-0 cell holds c * indel and is flagged fromLeft, every         *)
(* column-0 cell holds r * indel and is flagged fromTop, for every indel;  *)
(* for SW and GL row 0 and column 0 are all zero with no flags.            *)
(***************************************************************************)
C9_BoundaryInitialisation ==
    Filled =>
        \A rc \in DOMAIN score :
            LET r == rc[1]
                c == rc[2]
            IN  IF mode = "global"
                THEN /\ r = 0 => (score[rc].val = c * penalties["indel"] /\ score[rc].left = 1)
                     /\ c = 0 => (score[rc].val = r * penalties["indel"] /\ score[rc].top = 1)
                ELSE (r = 0 \/ c = 0) => score[rc] = ZeroCell

\* the local half of the statement alone
C9_LocalBoundaryIsZero ==
    (Filled /\ mode = "local") =>
        \A rc \in DOMAIN score : (rc[1] = 0 \/ rc[2] = 0) => score[rc] = ZeroCell

(***************************************************************************)
(* C10.  Gotoh fill recurrence: for every cell (r, c), r >= 1 and c >= 1,  *)
(* of the affine matrix, I[r,c] = max(score[r,c-1] + gap_opening,          *)
(* I[r,c-1] + indel), in the first column (c = 1) the opening term         *)
(* score[r,0] + gap_opening alone; D[r,c] = max(score[r-1,c] +             *)
(* gap_opening, D[r-1,c] + indel), in the first row (r = 1) the opening    *)
(* term score[0,c] + gap_opening alone; the cell's left candidate is       *)
(* I[r,c] and its top candidate is D[r,c].                                 *)
(***************************************************************************)
C10_GotohRecurrence ==
    (Filled /\ IsGotoh(args.method)) =>
        \A rc \in DOMAIN score :
            LET r == rc[1]
                c == rc[2]
                go == penalties["gap_opening"]
                ext == penalties["indel"]
            IN  (r >= 1 /\ c >= 1) =>
                  /\ I[rc] = IF c = 1 THEN score[<<r, 0>>].val + go
                             ELSE Max2(score[<<r, c - 1>>].val + go, I[<<r, c - 1>>] + ext)
                  /\ D[rc] = IF r = 1 THEN score[<<0, c>>].val + go
                             ELSE Max2(score[<<r - 1, c>>].val + go, D[<<r - 1, c>>] + ext)
                  /\ score[rc].left = 1 <=> I[rc] = score[rc].val
                  /\ score[rc].top = 1 <=> D[rc] = score[rc].val

\* the candidates alone: the left arrow is set exactly when I[r,c] is the
\* cell's score, the top arrow exactly when D[r,c] is
C10_CandidatesAreIAndD ==
    (Filled /\ IsGotoh(args.method)) =>
        \A rc \in DOMAIN score :
            (rc[1] >= 1 /\ rc[2] >= 1) =>
                /\ score[rc].left = 1 <=> I[rc] = score[rc].val
                /\ score[rc].top = 1 <=> D[rc] = score[rc].val

\* (row, col) is a cell of the matrix
InMatrix == <<row, col>> \in DOMAIN score

\* the cell has at least one predecessor arrow
HasArrow(cell) == cell.left # 0 \/ cell.diag # 0 \/ cell.top # 0

\* lines 134-139 and 211-216: the walk stands on the cell that ends it
AtStop ==
    /\ InMatrix
    /\ IF mode = "global" THEN row = 0 /\ col = 0
       ELSE score[<<row, col>>].val = 0

\* a call of one of the four implemented methods with a complete penalty model
Aligning ==
    /\ NormMethod(args.method) \in {"NW", "SW", "GG", "GL"}
    /\ ~Malformatted(PenaltiesOrDefault(args.penalties))

\* the walk has a cell to start from that is not already its stop: for the
\* global methods a sequence is non-empty, for the local ones the maximum
\* of the matrix is positive
WalkCanStart ==
    /\ pc \in {"trace", "done", "raised"}
    /\ DOMAIN score # {}
    /\ IF mode = "global" THEN args.A # <<>> \/ args.B # <<>>
       ELSE final_score > 0

(***************************************************************************)
(* C11.  Traceback always completes: for every pair of sequences of length *)
(* >= 0 (an empty sequence, and pairs without a positive cell, included)   *)
(* and every method in {NW, SW, GG, GL} with a complete penalty model, the *)
(* call raises nothing and returns; every cell the backward walk is about  *)
(* to step from lies in the matrix and has a predecessor arrow set, and    *)
(* the walk ends on the stop condition (global: cell (0, 0); local: a cell *)
(* whose score is 0).                                                      *)
(***************************************************************************)
C11_TracebackCompletes ==
    Aligning =>
        /\ exc = "none"
        /\ pc # "raised"
        /\ pc = "trace" => (InMatrix /\ HasArrow(score[<<row, col>>]))
        /\ pc = "done" => AtStop

\* the same statement for the calls whose walk has somewhere to go
C11_CompletesWhenWalkCanStart ==
    (Aligning /\ WalkCanStart) =>
        /\ exc = "none"
        /\ pc # "raised"
        /\ pc = "trace" => (InMatrix /\ HasArrow(score[<<row, col>>]))
        /\ pc = "done" => AtStop

\* and the other calls all raise: once the start cell is picked, a call whose
\* walk cannot start never returns
C11_RaisesWhenWalkCannotStart ==
    (/\ Aligning
     /\ pc \in {"trace", "done", "raised"}
     /\ DOMAIN score # {}
     /\ ~WalkCanStart)
        => /\ pc # "done"
           /\ pc = "raised" => exc = (IF mode = "global" THEN "IndexError" ELSE "TypeError")

====
